---- MODULE Spec2Model ----
(***************************************************************************)
(* A model of the download engine of rust-bittorent (crate bittorrent_core):*)
(* the per-torrent supervisor (Torrent::run), its PiecePicker and           *)
(* PieceCache, the PeerInfo sessions that talk to remote peers, and the     *)
(* DiskActor.  Remote peers and the tracker are the environment.            *)
(*                                                                         *)
(* Abstractions.  Block data is a length and a tag: "good" when the bytes   *)
(* are those of the original file, "bad" otherwise; SHA-1 validation of a   *)
(* piece succeeds exactly when every block slot of its buffer is "good".    *)
(* Socket addresses are the strings of Peers.                               *)
(***************************************************************************)
EXTENDS Integers, Sequences, FiniteSets, TLC

\* ---------------------------------------------------------------- constants
BLOCK_SIZE == 16384

THRESHOLD == 5

RAREST_AFTER == 4

\* mpsc::channel(10000), the supervisor mailbox
CHANNEL_CAPACITY == 10000

\* ------------------------------------------------------------------- bounds
\* events the remote peers cause over a run, all connections together: a wire
\* message, a closed connection, an I/O error
MaxRecv == 3

Peers == {"a1", "a2"}

\* the tracker announces at most this many addresses over a run, repeats
\* included (one session task is spawned for each)
MaxAnnounced == Cardinality(Peers)

\* the address the tracker names first (addresses are interchangeable)
FirstPeer == "a1"

\* the torrents the model is run on: two small pieces (the last one short),
\* and one piece of six blocks (the last block one byte long)
SmallTorrent == [piece_length |-> 8, length |-> 12]
BigTorrent == [piece_length |-> 6 * BLOCK_SIZE, length |-> 5 * BLOCK_SIZE + 1]
Torrents == {SmallTorrent, BigTorrent}

\* ------------------------------------------------------------------ helpers
Min(a, b) == IF a <= b THEN a ELSE b

CeilDiv(a, b) == (a + b - 1) \div b

Pow2(k) == 2 ^ k

\* ---------------------------------------------------------------- TorrentInfo
get_total_pieces(t) == CeilDiv(t.length, t.piece_length)

get_piece_len(t, i) ==
    IF i = get_total_pieces(t) - 1
    THEN t.length - (get_total_pieces(t) - 1) * t.piece_length
    ELSE t.piece_length

\* ------------------------------------------------------------------ BitField
BitFieldNew(total_pieces) ==
    [total_pieces |-> total_pieces,
     inner |-> [b \in 1..CeilDiv(total_pieces, 8) |-> 0]]

\* bit `bit_index` of byte `byte`
BitOf(byte, bit_index) == (byte \div Pow2(bit_index)) % 2

has_piece(bf, index) ==
    IF index >= bf.total_pieces THEN FALSE
    ELSE BitOf(bf.inner[(index \div 8) + 1], 7 - (index % 8)) # 0

set_piece_lsb(bf, index) ==
    IF index >= bf.total_pieces THEN bf
    ELSE LET byte_index == (index \div 8) + 1
             bit_index == index % 8
         IN [bf EXCEPT !.inner[byte_index] =
                IF BitOf(@, bit_index) = 1 THEN @ ELSE @ + Pow2(bit_index)]

\* a set_piece that assigns the mask instead of or-ing it
set_piece_assign(bf, index) ==
    IF index >= bf.total_pieces THEN bf
    ELSE [bf EXCEPT !.inner[(index \div 8) + 1] = Pow2(7 - (index % 8))]

set_piece(bf, index) ==
    IF index >= bf.total_pieces THEN bf
    ELSE LET byte_index == (index \div 8) + 1
             bit_index == 7 - (index % 8)
         IN [bf EXCEPT !.inner[byte_index] =
                IF BitOf(@, bit_index) = 1 THEN @ ELSE @ + Pow2(bit_index)]

\* a try_from that does not look at the bytes after the expected ones
try_from_anyTail(bytes, num_pieces) ==
    LET expected_bytes == CeilDiv(num_pieces, 8)
        last_byte_bits == num_pieces % 8
    IN IF Len(bytes) < expected_bytes
       THEN [ok |-> FALSE, err |-> "InvalidLength", bf |-> BitFieldNew(0)]
       ELSE IF last_byte_bits # 0
               /\ bytes[expected_bytes] % Pow2(8 - last_byte_bits) # 0
       THEN [ok |-> FALSE, err |-> "NonZeroSpareBits", bf |-> BitFieldNew(0)]
       ELSE [ok |-> TRUE, err |-> "none",
             bf |-> [total_pieces |-> num_pieces,
                     inner |-> [b \in 1..expected_bytes |-> bytes[b]]]]

\* BitField::try_from(bytes, num_pieces): the error, or the bitfield
try_from(bytes, num_pieces) ==
    LET expected_bytes == CeilDiv(num_pieces, 8)
        last_byte_bits == num_pieces % 8
    IN IF Len(bytes) < expected_bytes
       THEN [ok |-> FALSE, err |-> "InvalidLength", bf |-> BitFieldNew(0)]
       ELSE IF last_byte_bits # 0
               /\ bytes[expected_bytes] % Pow2(8 - last_byte_bits) # 0
       THEN [ok |-> FALSE, err |-> "NonZeroSpareBits", bf |-> BitFieldNew(0)]
       ELSE IF \E j \in (expected_bytes + 1)..Len(bytes) : bytes[j] # 0
       THEN [ok |-> FALSE, err |-> "NonZeroSpareBits", bf |-> BitFieldNew(0)]
       ELSE [ok |-> TRUE, err |-> "none",
             bf |-> [total_pieces |-> num_pieces,
                     inner |-> [b \in 1..expected_bytes |-> bytes[b]]]]

\* --------------------------------------------------------------- PiecePicker
PickerFrom(t) ==
    [i \in 0..(get_total_pieces(t) - 1) |->
        [availability |-> 0, status |-> "NotRequested", size |-> get_piece_len(t, i)]]

\* insert into / remove from the peer -> bitfield map
MapInsert(m, k, v) == [q \in (DOMAIN m) \cup {k} |-> IF q = k THEN v ELSE m[q]]

MapRemove(m, k) == [q \in (DOMAIN m) \ {k} |-> m[q]]

\* register_peer: the new availability counts (the map insert is the caller's)
register_peer(ps, bf) ==
    [i \in DOMAIN ps |->
        IF has_piece(bf, i)
        THEN [ps[i] EXCEPT !.availability = @ + 1]
        ELSE ps[i]]

\* update_peer: "ok" with the new map and counts, or the out-of-bounds panic
\* of self.pieces[piece_index]
update_peer(ps, bfs, peer, piece_index) ==
    IF peer \notin DOMAIN bfs
    THEN [panic |-> FALSE, pieces |-> ps, bfs |-> bfs]
    ELSE IF has_piece(bfs[peer], piece_index)
    THEN [panic |-> FALSE, pieces |-> ps, bfs |-> bfs]
    ELSE IF piece_index \notin DOMAIN ps
    THEN [panic |-> TRUE, pieces |-> ps,
          bfs |-> [bfs EXCEPT ![peer] = set_piece(@, piece_index)]]
    ELSE [panic |-> FALSE,
          pieces |-> [ps EXCEPT ![piece_index].availability = @ + 1],
          bfs |-> [bfs EXCEPT ![peer] = set_piece(@, piece_index)]]

\* an unregister_peer that takes a missing bitfield for a full one and
\* decrements without looking at the count
unregister_peer_blind(ps, bfs, peer) ==
    [i \in DOMAIN ps |->
        IF peer \notin DOMAIN bfs \/ has_piece(bfs[peer], i)
        THEN [ps[i] EXCEPT !.availability = @ - 1]
        ELSE ps[i]]

unregister_peer(ps, bfs, peer) ==
    IF peer \notin DOMAIN bfs THEN ps
    ELSE [i \in DOMAIN ps |->
            IF has_piece(bfs[peer], i) /\ ps[i].availability > 0
            THEN [ps[i] EXCEPT !.availability = @ - 1]
            ELSE ps[i]]

\* a mark_piece that also counts the piece as one more copy
mark_piece_counting(ps, piece_idx, new_state) ==
    IF piece_idx \in DOMAIN ps
    THEN [ps EXCEPT ![piece_idx].status = new_state,
                    ![piece_idx].availability = @ + 1]
    ELSE ps

mark_piece(ps, piece_idx, new_state) ==
    IF piece_idx \in DOMAIN ps
    THEN [ps EXCEPT ![piece_idx].status = new_state]
    ELSE ps

DownloadedCount(ps) == Cardinality({i \in DOMAIN ps : ps[i].status = "Download"})

\* a mark_piece_downloaded that switches one piece late
mark_piece_downloaded_late(ps, strategy, piece_idx) ==
    LET ps2 == mark_piece(ps, piece_idx, "Download")
    IN [pieces |-> ps2,
        strategy |-> IF strategy # "RarestFirst" /\ DownloadedCount(ps2) = RAREST_AFTER + 1
                     THEN "RarestFirst" ELSE strategy]

\* mark_piece_downloaded: the new pieces and the new strategy
mark_piece_downloaded(ps, strategy, piece_idx) ==
    LET ps2 == mark_piece(ps, piece_idx, "Download")
    IN [pieces |-> ps2,
        strategy |-> IF strategy # "RarestFirst" /\ DownloadedCount(ps2) = RAREST_AFTER
                     THEN "RarestFirst" ELSE strategy]

\* a check_interest that counts only the pieces nobody was granted
check_interest_notRequested(ps, bfs, peer) ==
    /\ peer \in DOMAIN bfs
    /\ \E i \in DOMAIN ps : ps[i].status = "NotRequested" /\ has_piece(bfs[peer], i)

check_interest(ps, bfs, peer) ==
    /\ peer \in DOMAIN bfs
    /\ \E i \in DOMAIN ps : ps[i].status # "Download" /\ has_piece(bfs[peer], i)

all_pieces_downloaded(ps) == \A i \in DOMAIN ps : ps[i].status = "Download"

BlockInfo(index, begin, length) == [index |-> index, begin |-> begin, length |-> length]

\* a get_blocks whose blocks all have the full block length
get_blocks_fullBlocks(ps, piece_idx) ==
    [j \in 1..CeilDiv(ps[piece_idx].size, BLOCK_SIZE) |->
        BlockInfo(piece_idx, (j - 1) * BLOCK_SIZE, BLOCK_SIZE)]

\* get_blocks: (0..piece_size).step_by(BLOCK_SIZE), in order
get_blocks(ps, piece_idx) ==
    LET piece_size == ps[piece_idx].size
    IN [j \in 1..CeilDiv(piece_size, BLOCK_SIZE) |->
          BlockInfo(piece_idx, (j - 1) * BLOCK_SIZE,
                    Min(BLOCK_SIZE, piece_size - (j - 1) * BLOCK_SIZE))]

CandidatePieces_anyStatus(ps, bf) == {i \in DOMAIN ps : has_piece(bf, i)}

CandidatePieces_notRequested(ps, bf) ==
    {i \in DOMAIN ps : ps[i].status # "Requested" /\ has_piece(bf, i)}

\* the candidate_pieces of pick_piece
CandidatePieces(ps, bf) ==
    {i \in DOMAIN ps : ps[i].status = "NotRequested" /\ has_piece(bf, i)}

\* a pick_piece whose rarest-first choice is the last candidate of least
\* availability
PickChoices_lastMinimum(ps, strategy, bf) ==
    LET C == CandidatePieces(ps, bf)
    IN IF strategy = "RandomFirst" THEN C
       ELSE {k \in C : \A i \in C :
                \/ ps[k].availability < ps[i].availability
                \/ (ps[k].availability = ps[i].availability /\ k >= i)}

\* the pieces pick_piece may choose: any candidate under RandomFirst, the
\* first candidate of least availability under RarestFirst
PickChoices(ps, strategy, bf) ==
    LET C == CandidatePieces(ps, bf)
    IN IF strategy = "RandomFirst" THEN C
       ELSE {k \in C : \A i \in C :
                \/ ps[k].availability < ps[i].availability
                \/ (ps[k].availability = ps[i].availability /\ k <= i)}

\* ---------------------------------------------------------------- PieceCache
Slots(piece_length) == 1..CeilDiv(piece_length, BLOCK_SIZE)

PieceCacheFrom(t) ==
    [i \in 0..(get_total_pieces(t) - 1) |->
        [buffer |-> [j \in Slots(get_piece_len(t, i)) |-> "zero"],
         piece_length |-> get_piece_len(t, i),
         downloaded |-> 0]]

Block(index, begin, length, tag) ==
    [index |-> index, begin |-> begin, length |-> length, tag |-> tag]

\* buffer[offset..offset + len].copy_from_slice(data), on the block slots of
\* the buffer: a slot the data covers takes its tag, a slot it covers in part
\* stays as it was under good bytes and turns "bad" under bad ones
WriteBuffer(buffer, piece_length, begin, length, tag) ==
    [j \in DOMAIN buffer |->
        LET lo == (j - 1) * BLOCK_SIZE
            hi == Min(j * BLOCK_SIZE, piece_length)
        IN IF begin <= lo /\ hi <= begin + length THEN tag
           ELSE IF begin < hi /\ lo < begin + length /\ tag = "bad" THEN "bad"
           ELSE buffer[j]]

NoData == [src |-> -1, slots |-> <<>>, len |-> 0]

\* insert_block that keeps the entry of a completed piece, its count back at 0
insert_block_keepEntry(piece_map, block) ==
    LET index == block.index
    IN IF index \notin DOMAIN piece_map
       THEN [panic |-> FALSE, done |-> FALSE, map |-> piece_map, data |-> NoData]
       ELSE LET piece == piece_map[index]
                downloaded == piece.downloaded + block.length
                buffer == WriteBuffer(piece.buffer, piece.piece_length,
                                      block.begin, block.length, block.tag)
            IN IF block.begin + block.length > piece.piece_length
               THEN [panic |-> TRUE, done |-> FALSE, map |-> piece_map, data |-> NoData]
               ELSE IF downloaded = piece.piece_length
               THEN [panic |-> FALSE, done |-> TRUE,
                     map |-> [piece_map EXCEPT ![index] =
                                [piece EXCEPT !.buffer = buffer, !.downloaded = 0]],
                     data |-> [src |-> index, slots |-> buffer, len |-> piece.piece_length]]
               ELSE [panic |-> FALSE, done |-> FALSE, data |-> NoData,
                     map |-> [piece_map EXCEPT ![index] =
                                [piece EXCEPT !.buffer = buffer, !.downloaded = downloaded]]]

\* insert_block: the slice panic, or the new map and the completed piece if any
insert_block(piece_map, block) ==
    LET index == block.index
    IN IF index \notin DOMAIN piece_map
       THEN [panic |-> FALSE, done |-> FALSE, map |-> piece_map, data |-> NoData]
       ELSE LET piece == piece_map[index]
                downloaded == piece.downloaded + block.length
                buffer == WriteBuffer(piece.buffer, piece.piece_length,
                                      block.begin, block.length, block.tag)
            IN IF block.begin + block.length > piece.piece_length
               THEN [panic |-> TRUE, done |-> FALSE, map |-> piece_map, data |-> NoData]
               ELSE IF downloaded = piece.piece_length
               THEN [panic |-> FALSE, done |-> TRUE, map |-> MapRemove(piece_map, index),
                     data |-> [src |-> index, slots |-> buffer, len |-> piece.piece_length]]
               ELSE [panic |-> FALSE, done |-> FALSE, data |-> NoData,
                     map |-> [piece_map EXCEPT ![index] =
                                [piece EXCEPT !.buffer = buffer, !.downloaded = downloaded]]]

\* ------------------------------------------------------------------- Torrent
\* piece_validation: SHA-1 of the bytes equals the expected hash of the piece
piece_validation(piece_idx, piece_data) ==
    /\ piece_data.src = piece_idx
    /\ \A j \in DOMAIN piece_data.slots : piece_data.slots[j] = "good"

\* ----------------------------------------------------------------- PeerInfo
PipelineFull_offByOne(outgoing) == Cardinality(outgoing) > THRESHOLD

\* self.outgoing_requests.len() >= Self::THRESHOLD
PipelineFull(outgoing) == Cardinality(outgoing) >= THRESHOLD

NoTask == [some |-> FALSE, list |-> <<>>]

NoReply == [kind |-> "none", b |-> FALSE, task |-> NoTask]

\* PeerInfo::new, in the task connect_to_peer spawns
NewSession(addr) ==
    [addr |-> addr,
     pc |-> "connecting",
     am_interested |-> FALSE,
     am_choking |-> TRUE,
     remote_interested |-> FALSE,
     remote_choking |-> FALSE,
     outgoing_requests |-> {},
     blocks_to_request |-> NoTask,
     reply |-> NoReply,
     \* history: REQUESTs sent, requested blocks a PIECE answered, answered
     \* blocks that arrived once more, and whether the last Choke/Unchoke
     \* received was an Unchoke
     requested |-> {},
     answered |-> {},
     again |-> {},
     unchoked |-> FALSE]

PopRequests_single(list, outgoing, sent) ==
    IF list = <<>> THEN [list |-> list, outgoing |-> outgoing, sent |-> sent]
    ELSE [list |-> SubSeq(list, 1, Len(list) - 1),
          outgoing |-> outgoing \cup {list[Len(list)]},
          sent |-> sent \cup {list[Len(list)]}]

RECURSIVE PopRequests(_, _, _)
\* while let Some(block_info) = blocks_to_request.pop() { send; insert; break when full }
PopRequests(list, outgoing, sent) ==
    IF list = <<>> THEN [list |-> list, outgoing |-> outgoing, sent |-> sent]
    ELSE LET block_info == list[Len(list)]
             rest == SubSeq(list, 1, Len(list) - 1)
             out2 == outgoing \cup {block_info}
         IN IF PipelineFull(out2)
            THEN [list |-> rest, outgoing |-> out2, sent |-> sent \cup {block_info}]
            ELSE PopRequests(rest, out2, sent \cup {block_info})

\* the guard of try_request
WantsRequest(se) ==
    ~se.remote_choking /\ se.am_interested /\ ~PipelineFull(se.outgoing_requests)

\* the request loop of try_request over the cached block list
SendRequests(se) ==
    IF ~se.blocks_to_request.some THEN se
    ELSE LET r == PopRequests(se.blocks_to_request.list, se.outgoing_requests, {})
         IN [se EXCEPT !.outgoing_requests = r.outgoing,
                       !.blocks_to_request = [some |-> TRUE, list |-> r.list],
                       !.requested = @ \cup r.sent]

\* try_request up to the reply of get_tasks: pc "waitTask" when GetTask is sent
try_request(se) ==
    IF ~WantsRequest(se) THEN [se EXCEPT !.pc = "idle"]
    ELSE IF ~se.blocks_to_request.some THEN [se EXCEPT !.pc = "waitTask"]
    ELSE [SendRequests(se) EXCEPT !.pc = "idle"]

\* ------------------------------------------------------------------ messages
NoBf == BitFieldNew(0)

NoBlock == Block(0, 0, 0, "good")

Msg(type, addr, sid, bf, idx, block, peers) ==
    [type |-> type, addr |-> addr, sid |-> sid, bf |-> bf, idx |-> idx,
     block |-> block, peers |-> peers]

PeerListMsg(peers) == Msg("PeerList", "", 0, NoBf, 0, NoBlock, peers)
PeerConnectedMsg(addr) == Msg("PeerConnected", addr, 0, NoBf, 0, NoBlock, <<>>)
PeerDisconnectedMsg(addr) == Msg("PeerDisconnected", addr, 0, NoBf, 0, NoBlock, <<>>)
PeerBitfieldMsg(addr, bf, sid) == Msg("PeerBitfield", addr, sid, bf, 0, NoBlock, <<>>)
PeerHaveMsg(addr, idx, sid) == Msg("PeerHave", addr, sid, NoBf, idx, NoBlock, <<>>)
PieceMsg(addr, block) == Msg("Piece", addr, 0, NoBf, 0, block, <<>>)
GetTaskMsg(addr, sid) == Msg("GetTask", addr, sid, NoBf, 0, NoBlock, <<>>)

\* -------------------------------------------------------------------- state
VARIABLES
    torrent,         \* TorrentInfo: piece_length and length
    supState,        \* Torrent::run: "new", "running" or "panicked"
    cmd,             \* the supervisor mailbox (cmd_rx), oldest first
    pieces,          \* PiecePicker.pieces
    peer_bitifield,  \* PiecePicker.peer_bitifield
    pick_strategy,   \* PiecePicker.pick_strategy
    peer_list,       \* Torrent.peer_list
    bitfield,        \* Torrent.bitfield
    piece_cache,     \* PieceCache.piece_map
    sessions,        \* the spawned peer tasks, in spawn order
    diskQ,           \* the DiskActor mailbox
    disk,            \* DiskActor: alive, torrent registered, blocking jobs
    file,            \* the output file: cursor and the content of each piece region
    announced,       \* addresses the tracker has announced so far
    received,        \* events the remote peers have caused so far
    grants,          \* history: per piece, the addresses pick_piece granted it to
    lastPick,        \* history: the last pick_piece call: its peer and result, the
                     \* pieces Downloaded and the pieces of the peer at the call
    failed,          \* history: pieces that failed validation
    tracker,         \* the TrackerClient of the announce task: its tiers, the
                     \* URL that answered last, and the position of the task
    net,             \* the tracker URLs that answer an announce right now
    announces,       \* history: the event of every announce_to_tracker call, and
                     \* the URLs tried and the result of the last one
    call             \* a BitField or PiecePicker method called on its own: its
                     \* arguments, the object it works on and its result

vars == <<torrent, supState, cmd, pieces, peer_bitifield, pick_strategy, peer_list,
          bitfield, piece_cache, sessions, diskQ, disk, file, announced,
          received, grants, lastPick, failed, tracker, net, announces, call>>

pickerVars == <<pieces, peer_bitifield, pick_strategy>>
trackerVars == <<tracker, net, announces>>
diskVars == <<diskQ, disk, file>>
histVars == <<grants, lastPick, failed>>

NoPick == [addr |-> "", piece |-> -1, done |-> {}, had |-> {}]

\* TrackerClient::new without an announce-list: one tier holding the announce
\* URL
NewTracker(tiers) == [pc |-> "new", tiers |-> tiers, current_tracker_url |-> ""]

NoAnnounce == [events |-> <<>>, tried |-> <<>>, ok |-> FALSE, error |-> ""]

InitAnnouncer(tiers, up) ==
    /\ tracker = NewTracker(tiers)
    /\ net = up
    /\ announces = NoAnnounce

NoCall == [fn |-> "none", arg |-> <<>>, obj |-> BitFieldNew(0), out |-> <<>>, hist |-> {}]

InitEngine(t) ==
    /\ torrent = t
    /\ call = NoCall
    /\ supState = "new"
    /\ cmd = <<>>
    /\ pieces = PickerFrom(t)
    /\ peer_bitifield = [q \in {} |-> NoBf]
    /\ pick_strategy = "RandomFirst"
    /\ peer_list = {}
    /\ bitfield = BitFieldNew(get_total_pieces(t))
    /\ piece_cache = PieceCacheFrom(t)
    /\ sessions = <<>>
    /\ diskQ = <<>>
    /\ disk = [alive |-> TRUE, registered |-> FALSE, jobs |-> <<>>]
    /\ file = [cursor |-> 0,
               region |-> [i \in 0..(get_total_pieces(t) - 1) |-> "empty"]]
    /\ announced = 0
    /\ received = 0
    /\ grants = [i \in 0..(get_total_pieces(t) - 1) |-> <<>>]
    /\ lastPick = NoPick
    /\ failed = {}

\* a metainfo with the one announce URL, which answers
InitWith(t) == InitEngine(t) /\ InitAnnouncer(<<<<"t1">>>>, {"t1"})

Init == \E t \in Torrents : InitWith(t)

NumPieces == get_total_pieces(torrent)

\* ---------------------------------------------------------------- DiskActor
\* DiskHandle::send: `let _ =`, a closed channel is ignored
DiskSend(q, d, m) == IF d.alive THEN Append(q, m) ELSE q

\* the sends of one handler, in order
DiskSendAll(q, d, ms) == IF d.alive THEN q \o ms ELSE q

RemoveAt(seq, j) == SubSeq(seq, 1, j - 1) \o SubSeq(seq, j + 1, Len(seq))

RegionLo(i) == i * torrent.piece_length

RegionHi(i) == RegionLo(i) + get_piece_len(torrent, i)

\* write_all(data) at the file cursor, on the piece regions of the file
WriteFile(f, data) ==
    [cursor |-> f.cursor + data.len,
     region |-> [i \in DOMAIN f.region |->
        IF f.cursor < RegionHi(i) /\ RegionLo(i) < f.cursor + data.len
        THEN IF data.src = i /\ f.cursor = RegionLo(i) /\ piece_validation(i, data)
             THEN "good" ELSE "bad"
        ELSE f.region[i]]]

\* DiskActor::run, RegisterTorrent
DiskRegister ==
    /\ disk.alive /\ diskQ # <<>> /\ Head(diskQ).type = "RegisterTorrent"
    /\ diskQ' = Tail(diskQ)
    /\ disk' = [disk EXCEPT !.registered = TRUE]
    /\ UNCHANGED <<torrent, call, trackerVars, supState, cmd, pickerVars, peer_list, bitfield, piece_cache,
                   sessions, file, announced, received, histVars>>

\* DiskActor::run, WriteBlock: write_piece(..).unwrap()
DiskWriteBlock ==
    /\ disk.alive /\ diskQ # <<>> /\ Head(diskQ).type = "WriteBlock"
    /\ diskQ' = Tail(diskQ)
    /\ disk' = IF disk.registered
               THEN [disk EXCEPT !.jobs = Append(@, [pc |-> "seek",
                                                     offset |-> Head(diskQ).offset,
                                                     data |-> Head(diskQ).data])]
               ELSE [disk EXCEPT !.alive = FALSE]
    /\ UNCHANGED <<torrent, call, trackerVars, supState, cmd, pickerVars, peer_list, bitfield, piece_cache,
                   sessions, file, announced, received, histVars>>

\* a blocking worker: file.seek(SeekFrom::Start(offset)).unwrap()
DiskJobSeek(j) ==
    /\ j \in DOMAIN disk.jobs /\ disk.jobs[j].pc = "seek"
    /\ disk' = [disk EXCEPT !.jobs[j].pc = "write"]
    /\ file' = [file EXCEPT !.cursor = disk.jobs[j].offset]
    /\ UNCHANGED <<torrent, call, trackerVars, supState, cmd, pickerVars, peer_list, bitfield, piece_cache,
                   sessions, diskQ, announced, received, histVars>>

\* a blocking worker: file.write_all(&data).unwrap()
DiskJobWrite(j) ==
    /\ j \in DOMAIN disk.jobs /\ disk.jobs[j].pc = "write"
    /\ disk' = [disk EXCEPT !.jobs = RemoveAt(@, j)]
    /\ file' = WriteFile(file, disk.jobs[j].data)
    /\ UNCHANGED <<torrent, call, trackerVars, supState, cmd, pickerVars, peer_list, bitfield, piece_cache,
                   sessions, diskQ, announced, received, histVars>>

\* a blocking worker whose seek or write returns an I/O error: the unwrap
\* panics on the worker thread and the write is lost
DiskJobFails(j) ==
    /\ j \in DOMAIN disk.jobs
    /\ disk' = [disk EXCEPT !.jobs = RemoveAt(@, j)]
    /\ UNCHANGED <<torrent, call, trackerVars, supState, cmd, pickerVars, peer_list, bitfield, piece_cache,
                   sessions, diskQ, file, announced, received, histVars>>

\* --------------------------------------------------------------- supervisor
supFrame == <<torrent, call, trackerVars, announced, received>>

\* the reply of a oneshot channel reaches the session that waits on it
Reply(ss, sid, rep) == [ss EXCEPT ![sid].reply = rep]

\* the supervisor task is gone: every oneshot sender it held is dropped, so a
\* session waiting for an interest verdict goes on (`if let Ok`), and one
\* waiting in get_tasks fails with TaskRequestFailed
OnSupervisorGone(ss) ==
    [i \in DOMAIN ss |->
        IF ss[i].reply.kind # "none" THEN ss[i]
        ELSE IF ss[i].pc = "waitInterest" THEN [ss[i] EXCEPT !.pc = "idle"]
        ELSE IF ss[i].pc = "waitTask" THEN [NewSession(ss[i].addr) EXCEPT !.pc = "ended"]
        ELSE ss[i]]

SupReady(type) == supState = "running" /\ cmd # <<>> /\ Head(cmd).type = type

\* Torrent::run that enters its loop without register_torrent
SupervisorStart_noRegister ==
    /\ supState = "new"
    /\ supState' = "running"
    /\ diskQ' = diskQ
    /\ UNCHANGED <<torrent, call, trackerVars, cmd, pickerVars, peer_list, bitfield, piece_cache, sessions,
                   disk, file, announced, received, histVars>>

\* Torrent::run before its loop: register the torrent with the disk actor and
\* spawn the tracker task
SupervisorStart ==
    /\ supState = "new"
    /\ supState' = "running"
    /\ diskQ' = DiskSend(diskQ, disk, [type |-> "RegisterTorrent", offset |-> 0, data |-> NoData])
    /\ UNCHANGED <<torrent, call, trackerVars, cmd, pickerVars, peer_list, bitfield, piece_cache, sessions,
                   disk, file, announced, received, histVars>>

PeerLists == UNION {[1..n -> Peers] : n \in 1..2}

\* the tracker task sends the peers of a successful announce
TrackerPeerList(peers) ==
    /\ supState = "running"
    /\ announced = 0 => peers[1] = FirstPeer
    /\ announced + Len(peers) <= MaxAnnounced
    /\ Len(cmd) < CHANNEL_CAPACITY
    /\ cmd' = Append(cmd, PeerListMsg(peers))
    /\ announced' = announced + Len(peers)
    /\ UNCHANGED <<torrent, call, trackerVars, supState, pickerVars, peer_list, bitfield, piece_cache,
                   sessions, diskVars, received, histVars>>

\* PeerList: connect_to_peer for every address not in peer_list
HandlePeerList ==
    /\ SupReady("PeerList")
    /\ LET NotKnown(a) == a \notin peer_list
           new == SelectSeq(Head(cmd).peers, NotKnown)
       IN sessions' = sessions \o [i \in 1..Len(new) |-> NewSession(new[i])]
    /\ cmd' = Tail(cmd)
    /\ UNCHANGED <<supFrame, supState, pickerVars, peer_list, bitfield, piece_cache,
                   diskVars, histVars>>

HandlePeerConnected ==
    /\ SupReady("PeerConnected")
    /\ peer_list' = peer_list \cup {Head(cmd).addr}
    /\ cmd' = Tail(cmd)
    /\ UNCHANGED <<supFrame, supState, pickerVars, bitfield, piece_cache, sessions,
                   diskVars, histVars>>

HandlePeerDisconnected ==
    /\ SupReady("PeerDisconnected")
    /\ pieces' = unregister_peer(pieces, peer_bitifield, Head(cmd).addr)
    /\ peer_bitifield' = MapRemove(peer_bitifield, Head(cmd).addr)
    /\ peer_list' = peer_list \ {Head(cmd).addr}
    /\ cmd' = Tail(cmd)
    /\ UNCHANGED <<supFrame, supState, pick_strategy, bitfield, piece_cache, sessions,
                   diskVars, histVars>>

HandlePeerBitfield ==
    /\ SupReady("PeerBitfield")
    /\ LET m == Head(cmd)
           ps == register_peer(pieces, m.bf)
           bfs == MapInsert(peer_bitifield, m.addr, m.bf)
       IN /\ pieces' = ps
          /\ peer_bitifield' = bfs
          /\ sessions' = Reply(sessions, m.sid,
                [kind |-> "interest", b |-> check_interest(ps, bfs, m.addr), task |-> NoTask])
    /\ cmd' = Tail(cmd)
    /\ UNCHANGED <<supFrame, supState, pick_strategy, peer_list, bitfield, piece_cache,
                   diskVars, histVars>>

try_write_piece_twice(piece_idx, piece_data) ==
    LET w == [type |-> "WriteBlock",
              offset |-> piece_idx * torrent.piece_length,
              data |-> piece_data]
    IN [valid |-> piece_validation(piece_idx, piece_data),
        marked |-> piece_validation(piece_idx, piece_data),
        write |-> IF piece_validation(piece_idx, piece_data) THEN <<w, w>> ELSE <<>>]

try_write_piece_unchecked(piece_idx, piece_data) ==
    [valid |-> TRUE, marked |-> TRUE,
     write |-> <<[type |-> "WriteBlock",
                  offset |-> piece_idx * torrent.piece_length,
                  data |-> piece_data]>>]

\* try_write_piece on a completed piece: what it submits to the disk actor
\* and what it marks
try_write_piece(piece_idx, piece_data) ==
    IF ~piece_validation(piece_idx, piece_data)
    THEN [valid |-> FALSE, write |-> <<>>, marked |-> FALSE]
    ELSE [valid |-> TRUE, marked |-> TRUE,
          write |-> <<[type |-> "WriteBlock",
                       offset |-> piece_idx * torrent.piece_length,
                       data |-> piece_data]>>]

\* Piece: insert_block, and try_write_piece when the piece is complete
HandlePiece ==
    /\ SupReady("Piece")
    /\ LET r == insert_block(piece_cache, Head(cmd).block)
           idx == Head(cmd).block.index
           w == try_write_piece(idx, r.data)
           marked == mark_piece_downloaded(pieces, pick_strategy, idx)
       IN IF r.panic
          THEN /\ supState' = "panicked"
               /\ cmd' = <<>>
               /\ sessions' = OnSupervisorGone(sessions)
               /\ UNCHANGED <<pickerVars, bitfield, piece_cache, diskQ, failed>>
          ELSE /\ supState' = supState
               /\ cmd' = Tail(cmd)
               /\ sessions' = sessions
               /\ piece_cache' = r.map
               /\ diskQ' = IF r.done THEN DiskSendAll(diskQ, disk, w.write) ELSE diskQ
               /\ pieces' = IF r.done /\ w.marked THEN marked.pieces ELSE pieces
               /\ pick_strategy' = IF r.done /\ w.marked THEN marked.strategy
                                   ELSE pick_strategy
               /\ bitfield' = IF r.done /\ w.marked THEN set_piece(bitfield, idx)
                              ELSE bitfield
               /\ failed' = IF r.done /\ ~piece_validation(idx, r.data)
                            THEN failed \cup {idx} ELSE failed
               /\ peer_bitifield' = peer_bitifield
    /\ UNCHANGED <<supFrame, peer_list, disk, file, grants, lastPick>>

\* GetTask: pick_piece, and the reply
HandleGetTask ==
    /\ SupReady("GetTask")
    /\ LET m == Head(cmd)
           choices == IF m.addr \in DOMAIN peer_bitifield
                      THEN PickChoices(pieces, pick_strategy, peer_bitifield[m.addr])
                      ELSE {}
       IN \E k \in (IF choices = {} THEN {-1} ELSE choices) :
            /\ pieces' = IF k = -1 THEN pieces ELSE mark_piece(pieces, k, "Requested")
            /\ sessions' = Reply(sessions, m.sid,
                  [kind |-> "task", b |-> FALSE,
                   task |-> IF k = -1 THEN NoTask
                            ELSE [some |-> TRUE, list |-> get_blocks(pieces, k)]])
            /\ grants' = IF k = -1 THEN grants
                         ELSE [grants EXCEPT ![k] = Append(@, m.addr)]
            /\ lastPick' = [addr |-> m.addr, piece |-> k,
                            done |-> {i \in DOMAIN pieces : pieces[i].status = "Download"},
                            had |-> IF m.addr \in DOMAIN peer_bitifield
                                    THEN {i \in DOMAIN pieces :
                                            has_piece(peer_bitifield[m.addr], i)}
                                    ELSE {}]
    /\ cmd' = Tail(cmd)
    /\ UNCHANGED <<supFrame, supState, peer_bitifield, pick_strategy, peer_list, bitfield,
                   piece_cache, diskVars, failed>>

\* PeerHave: update_peer, and the interest verdict when a reply is asked for
HandlePeerHave ==
    /\ SupReady("PeerHave")
    /\ LET m == Head(cmd)
           u == update_peer(pieces, peer_bitifield, m.addr, m.idx)
       IN IF u.panic
          THEN /\ supState' = "panicked"
               /\ cmd' = <<>>
               /\ sessions' = OnSupervisorGone(sessions)
               /\ UNCHANGED pickerVars
          ELSE /\ supState' = supState
               /\ cmd' = Tail(cmd)
               /\ pieces' = u.pieces
               /\ peer_bitifield' = u.bfs
               /\ pick_strategy' = pick_strategy
               /\ sessions' = IF m.sid = 0 THEN sessions
                              ELSE Reply(sessions, m.sid,
                                     [kind |-> "interest", task |-> NoTask,
                                      b |-> check_interest(u.pieces, u.bfs, m.addr)])
    /\ UNCHANGED <<supFrame, peer_list, bitfield, piece_cache, diskVars, histVars>>

\* ----------------------------------------------------------------- sessions
sessionFrame == <<torrent, call, trackerVars, supState, pickerVars, peer_list, bitfield, piece_cache,
                  diskVars, announced, histVars>>

\* a step of the session itself, and a step a remote peer causes
Internal == received' = received

Wire == received' = received + 1

\* the task is over and its PeerInfo dropped
Dropped(se, pc) == [NewSession(se.addr) EXCEPT !.pc = pc]

\* session s ends its step as `se`, having sent `out` to the supervisor.  A
\* full mailbox blocks the send.  With the supervisor gone a send fails: that
\* ends the session where the code propagates the error (`must`), and is
\* ignored where it does not (the reply is then an Err as well)
Finish(s, se, out, must) ==
    IF supState # "panicked"
    THEN /\ Len(cmd) + Len(out) <= CHANNEL_CAPACITY
         /\ cmd' = cmd \o out
         /\ sessions' = [sessions EXCEPT ![s] = se]
    ELSE /\ cmd' = cmd
         /\ sessions' = [sessions EXCEPT ![s] =
                IF out # <<>> /\ must THEN Dropped(se, "ended")
                ELSE IF se.pc = "waitInterest" THEN [se EXCEPT !.pc = "idle"]
                ELSE se]

\* the GetTask of get_tasks, when try_request reached it
TaskOut(s, se) == IF se.pc = "waitTask" THEN <<GetTaskMsg(se.addr, s)>> ELSE <<>>

Connecting(s) == s \in DOMAIN sessions /\ sessions[s].pc = "connecting"

\* the session waits in framed_stream.next() and the peer may still send
Receiving(s) ==
    /\ s \in DOMAIN sessions
    /\ sessions[s].pc = "idle"
    /\ received < MaxRecv

\* the info_hash of the local torrent and the one of another torrent
InfoHashes == {"ours", "other"}

\* a try_connect_to_peer that does not compare the info_hash
try_connect_to_peer_anyHash(received_info_hash) == "Ok"

\* try_connect_to_peer once a well-formed handshake has been read
try_connect_to_peer(received_info_hash) ==
    IF received_info_hash # "ours" THEN "HandshakeMismatch" ELSE "Ok"

\* the task of connect_to_peer when the peer's handshake arrives
SessionHandshake(s, received_info_hash) ==
    /\ Connecting(s)
    /\ IF try_connect_to_peer(received_info_hash) = "Ok"
       THEN Finish(s, [sessions[s] EXCEPT !.pc = "idle"],
                   <<PeerConnectedMsg(sessions[s].addr)>>, FALSE)
       ELSE Finish(s, Dropped(sessions[s], "ended"),
                   <<PeerDisconnectedMsg(sessions[s].addr)>>, FALSE)
    /\ Internal /\ UNCHANGED sessionFrame

\* try_connect_to_peer returns the stream: PeerConnected, then start()
SessionConnected(s) ==
    /\ Connecting(s)
    /\ Finish(s, [sessions[s] EXCEPT !.pc = "idle"],
              <<PeerConnectedMsg(sessions[s].addr)>>, FALSE)
    /\ Internal /\ UNCHANGED sessionFrame

\* try_connect_to_peer fails (connect, I/O, InvalidHandshake, HandshakeMismatch)
SessionConnectFailed(s) ==
    /\ Connecting(s)
    /\ Finish(s, Dropped(sessions[s], "ended"),
              <<PeerDisconnectedMsg(sessions[s].addr)>>, FALSE)
    /\ Internal /\ UNCHANGED sessionFrame

\* start() returns an error: a read, decode or write error on the stream
SessionIoError(s) ==
    /\ Receiving(s)
    /\ Finish(s, Dropped(sessions[s], "ended"),
              <<PeerDisconnectedMsg(sessions[s].addr)>>, FALSE)
    /\ Wire /\ UNCHANGED sessionFrame

\* the peer closes the connection: framed_stream.next() yields None, the only
\* branch of select! is disabled and select! panics; nothing is sent
SessionClosed(s) ==
    /\ Receiving(s)
    /\ Finish(s, Dropped(sessions[s], "panicked"), <<>>, FALSE)
    /\ Wire /\ UNCHANGED sessionFrame

\* KeepAlive, Request, Cancel
SessionRecvIgnored(s) ==
    /\ Receiving(s)
    /\ Finish(s, sessions[s], <<>>, FALSE)
    /\ Wire /\ UNCHANGED sessionFrame

WireBitfields == {<<>>, <<0>>, <<128>>, <<192>>, <<129>>, <<128, 0>>}

\* handle_msg on Bitfield(data)
OnBitfield(s, bytes) ==
    LET r == try_from(bytes, NumPieces)
        se == sessions[s]
    IN IF r.ok
       THEN Finish(s, [se EXCEPT !.pc = "waitInterest"],
                   <<PeerBitfieldMsg(se.addr, r.bf, s)>>, FALSE)
       ELSE Finish(s, Dropped(se, "ended"),
                   <<PeerDisconnectedMsg(se.addr)>>, FALSE)

SessionRecvBitfield(s, bytes) ==
    /\ Receiving(s)
    /\ OnBitfield(s, bytes)
    /\ Wire /\ UNCHANGED sessionFrame

\* the interest verdict arrives (after Bitfield, or Have while not interested)
SessionGotInterest(s) ==
    /\ s \in DOMAIN sessions
    /\ sessions[s].pc = "waitInterest"
    /\ sessions[s].reply.kind = "interest"
    /\ LET se == [sessions[s] EXCEPT !.reply = NoReply]
           se2 == IF sessions[s].reply.b
                  THEN try_request([se EXCEPT !.am_interested = TRUE])
                  ELSE [se EXCEPT !.pc = "idle"]
       IN Finish(s, se2, TaskOut(s, se2), TRUE)
    /\ Internal /\ UNCHANGED sessionFrame

\* the reply of get_tasks arrives: cache it and go on with the request loop
SessionGotTask(s) ==
    /\ s \in DOMAIN sessions
    /\ sessions[s].pc = "waitTask"
    /\ sessions[s].reply.kind = "task"
    /\ LET se == [sessions[s] EXCEPT !.reply = NoReply,
                                     !.blocks_to_request = sessions[s].reply.task,
                                     !.pc = "idle"]
       IN Finish(s, SendRequests(se), <<>>, FALSE)
    /\ Internal /\ UNCHANGED sessionFrame

SessionRecvChoke(s) ==
    /\ Receiving(s)
    /\ Finish(s, [sessions[s] EXCEPT !.remote_choking = TRUE, !.unchoked = FALSE],
              <<>>, FALSE)
    /\ Wire /\ UNCHANGED sessionFrame

\* handle_msg on Unchoke
OnUnchoke(s) ==
    LET se == try_request([sessions[s] EXCEPT !.remote_choking = FALSE,
                                              !.unchoked = TRUE])
    IN Finish(s, se, TaskOut(s, se), TRUE)

SessionRecvUnchoke(s) ==
    /\ Receiving(s)
    /\ OnUnchoke(s)
    /\ Wire /\ UNCHANGED sessionFrame

\* Interested / NotInterested: the flag is set and todo!() panics
SessionRecvInterested(s, flag) ==
    /\ Receiving(s)
    /\ Finish(s, Dropped([sessions[s] EXCEPT !.remote_interested = flag], "panicked"),
              <<>>, FALSE)
    /\ Wire /\ UNCHANGED sessionFrame

SessionRecvHave(s, piece_index) ==
    /\ Receiving(s)
    /\ LET se == sessions[s]
       IN IF se.am_interested
          THEN Finish(s, se, <<PeerHaveMsg(se.addr, piece_index, 0)>>, TRUE)
          ELSE Finish(s, [se EXCEPT !.pc = "waitInterest"],
                      <<PeerHaveMsg(se.addr, piece_index, s)>>, TRUE)
    /\ Wire /\ UNCHANGED sessionFrame

AllBlockInfos ==
    UNION {{get_blocks(pieces, i)[j] : j \in DOMAIN get_blocks(pieces, i)} : i \in DOMAIN pieces}

\* the PIECE messages a peer may send: the blocks of the torrent with good
\* bytes, the first block of each piece with bad bytes, and a block nobody
\* asks for
WireBlocks ==
    {Block(b.index, b.begin, b.length, "good") : b \in AllBlockInfos}
        \cup {Block(b.index, b.begin, b.length, "bad") : b \in {c \in AllBlockInfos : c.begin = 0}}
        \cup {Block(0, 0, 1, "bad")}

\* handle_msg on Piece(block) without the test of the outstanding set
OnPiece_forwardAll(s, block) ==
    LET info == BlockInfo(block.index, block.begin, block.length)
        se == [sessions[s] EXCEPT
                 !.answered = IF info \in sessions[s].requested
                              THEN @ \cup {info} ELSE @,
                 !.again = IF info \in sessions[s].answered
                           THEN @ \cup {info} ELSE @]
        se2 == try_request([se EXCEPT !.outgoing_requests = @ \ {info}])
    IN Finish(s, se2, <<PieceMsg(se.addr, block)>> \o TaskOut(s, se2), TRUE)

\* handle_msg on Piece(block)
OnPiece(s, block) ==
    LET info == BlockInfo(block.index, block.begin, block.length)
        se == [sessions[s] EXCEPT
                 !.answered = IF info \in sessions[s].requested
                              THEN @ \cup {info} ELSE @,
                 !.again = IF info \in sessions[s].answered
                           THEN @ \cup {info} ELSE @]
    IN IF info \notin se.outgoing_requests
       THEN Finish(s, se, <<>>, FALSE)
       ELSE LET se2 == try_request([se EXCEPT !.outgoing_requests = @ \ {info}])
            IN Finish(s, se2, <<PieceMsg(se.addr, block)>> \o TaskOut(s, se2), TRUE)

SessionRecvPiece(s, block) ==
    /\ Receiving(s)
    /\ OnPiece(s, block)
    /\ Wire /\ UNCHANGED sessionFrame

\* ------------------------------------------------------------ specification
SupervisorNext ==
    \/ SupervisorStart
    \/ \E peers \in PeerLists : TrackerPeerList(peers)
    \/ HandlePeerList
    \/ HandlePeerConnected
    \/ HandlePeerDisconnected
    \/ HandlePeerBitfield
    \/ HandlePiece
    \/ HandleGetTask
    \/ HandlePeerHave

DiskNext ==
    \/ DiskRegister
    \/ DiskWriteBlock
    \/ \E j \in DOMAIN disk.jobs : DiskJobSeek(j)
    \/ \E j \in DOMAIN disk.jobs : DiskJobWrite(j)
    \/ \E j \in DOMAIN disk.jobs : DiskJobFails(j)

SessionNext ==
    \/ \E s \in DOMAIN sessions : SessionConnected(s)
    \/ \E s \in DOMAIN sessions : SessionConnectFailed(s)
    \/ \E s \in DOMAIN sessions, h \in InfoHashes : SessionHandshake(s, h)
    \/ \E s \in DOMAIN sessions : SessionIoError(s)
    \/ \E s \in DOMAIN sessions : SessionClosed(s)
    \/ \E s \in DOMAIN sessions : SessionRecvIgnored(s)
    \/ \E s \in DOMAIN sessions, bytes \in WireBitfields : SessionRecvBitfield(s, bytes)
    \/ \E s \in DOMAIN sessions : SessionGotInterest(s)
    \/ \E s \in DOMAIN sessions : SessionGotTask(s)
    \/ \E s \in DOMAIN sessions : SessionRecvChoke(s)
    \/ \E s \in DOMAIN sessions : SessionRecvUnchoke(s)
    \/ \E s \in DOMAIN sessions, flag \in BOOLEAN : SessionRecvInterested(s, flag)
    \/ \E s \in DOMAIN sessions, i \in 0..NumPieces : SessionRecvHave(s, i)
    \/ \E s \in DOMAIN sessions, block \in WireBlocks : SessionRecvPiece(s, block)

Next == SupervisorNext \/ DiskNext \/ SessionNext

Spec == Init /\ [][Next]_vars

\* the supervisor and the sessions alone: the disk actor does not run and its
\* mailbox only fills.  The disk actor sends nothing back, so this changes no
\* behaviour of the supervisor and the sessions
NextCore == SupervisorNext \/ SessionNext

SpecCore == Init /\ [][NextCore]_vars

\* the steps a task takes on its own once it is ready: the supervisor handles
\* the next message, a connection attempt comes to its end, an awaited reply
\* is taken
SupervisorHandle ==
    \/ SupervisorStart
    \/ HandlePeerList
    \/ HandlePeerConnected
    \/ HandlePeerDisconnected
    \/ HandlePeerBitfield
    \/ HandlePiece
    \/ HandleGetTask
    \/ HandlePeerHave

SessionStep ==
    \/ \E s \in DOMAIN sessions : SessionConnected(s) \/ SessionConnectFailed(s)
    \/ \E s \in DOMAIN sessions : SessionGotInterest(s)
    \/ \E s \in DOMAIN sessions : SessionGotTask(s)

\* SpecCore under the tokio scheduler: every ready task runs
SpecCoreFair == SpecCore /\ WF_vars(SupervisorHandle) /\ WF_vars(SessionStep)

\* the disk actor takes its next message, a blocking worker goes on
DiskStep ==
    \/ DiskRegister
    \/ DiskWriteBlock
    \/ \E j \in DOMAIN disk.jobs : DiskJobSeek(j)
    \/ \E j \in DOMAIN disk.jobs : DiskJobWrite(j)

\* Spec under the tokio scheduler
SpecFair ==
    Spec /\ WF_vars(SupervisorHandle) /\ WF_vars(SessionStep) /\ WF_vars(DiskStep)

\* ------------------------------------------------- fault-free environment
\* The tracker announces distinct addresses once; every peer has every piece,
\* sends its Bitfield, unchokes, and answers each outstanding REQUEST with the
\* bytes of the file.  No connection fails and no disk job fails.
IdealPeerLists == {<<FirstPeer>>} \cup {p \in [1..2 -> Peers] : p[1] = FirstPeer /\ p[2] # FirstPeer}

IdealTracker == \E peers \in IdealPeerLists : announced = 0 /\ TrackerPeerList(peers)

FullBitfield == IF NumPieces = 1 THEN <<128>> ELSE <<192>>

Idle(s) == s \in DOMAIN sessions /\ sessions[s].pc = "idle"

IdealBitfield(s) ==
    /\ Idle(s)
    /\ sessions[s].addr \notin DOMAIN peer_bitifield
    /\ OnBitfield(s, FullBitfield)
    /\ Internal /\ UNCHANGED sessionFrame

IdealUnchoke(s) ==
    /\ Idle(s)
    /\ sessions[s].addr \in DOMAIN peer_bitifield
    /\ ~sessions[s].unchoked
    /\ OnUnchoke(s)
    /\ Internal /\ UNCHANGED sessionFrame

\* the peer answers REQUESTs in the order it got them: try_request pops the
\* block list from its end, so the oldest outstanding request of a piece is
\* the one with the largest offset
OldestRequest(outgoing) ==
    CHOOSE info \in outgoing :
        \A other \in outgoing :
            \/ other.index > info.index
            \/ other.index = info.index /\ other.begin <= info.begin

IdealPiece(s) ==
    /\ Idle(s)
    /\ sessions[s].outgoing_requests # {}
    /\ LET info == OldestRequest(sessions[s].outgoing_requests)
       IN OnPiece(s, Block(info.index, info.begin, info.length, "good"))
    /\ Internal /\ UNCHANGED sessionFrame

IdealSupervisor ==
    \/ SupervisorStart
    \/ HandlePeerList
    \/ HandlePeerConnected
    \/ HandlePeerBitfield
    \/ HandlePiece
    \/ HandleGetTask

IdealSession ==
    \/ \E s \in DOMAIN sessions : SessionConnected(s)
    \/ \E s \in DOMAIN sessions : SessionGotInterest(s)
    \/ \E s \in DOMAIN sessions : SessionGotTask(s)

IdealPeer ==
    \/ \E s \in DOMAIN sessions : IdealBitfield(s)
    \/ \E s \in DOMAIN sessions : IdealUnchoke(s)
    \/ \E s \in DOMAIN sessions : IdealPiece(s)

IdealDisk ==
    \/ DiskRegister
    \/ DiskWriteBlock
    \/ \E j \in DOMAIN disk.jobs : DiskJobSeek(j)
    \/ \E j \in DOMAIN disk.jobs : DiskJobWrite(j)

NextIdeal == IdealTracker \/ IdealSupervisor \/ IdealSession \/ IdealPeer \/ IdealDisk

\* the tokio runtime schedules every ready task, the tracker answers and the
\* peers keep their word
SpecIdeal ==
    /\ Init /\ [][NextIdeal]_vars
    /\ WF_vars(IdealTracker) /\ WF_vars(IdealSupervisor) /\ WF_vars(IdealSession)
    /\ WF_vars(IdealPeer) /\ WF_vars(IdealDisk)

\* ------------------------------------------------------------ TrackerClient
\* the announce rounds of one run
MaxAnnounces == 3

\* announce_to_url fails with the error of the HTTP request when the tracker
\* does not answer
DownError == "RequestError"

\* a Promote that swaps the tracker that answered with the first of its tier
Promote_swap(tier, tracker_index) ==
    [j \in DOMAIN tier |-> IF j = 1 THEN tier[tracker_index]
                           ELSE IF j = tracker_index THEN tier[1]
                           ELSE tier[j]]

\* remove(tracker_index) and insert(0, url), done for tracker_index > 0
Promote(tier, tracker_index) ==
    IF tracker_index > 1
    THEN <<tier[tracker_index]>> \o SubSeq(tier, 1, tracker_index - 1)
            \o SubSeq(tier, tracker_index + 1, Len(tier))
    ELSE tier

\* the two loops of announce_to_tracker, from tracker tracker_index of tier
\* tier_index on: the URLs tried, the result, and the tiers afterwards
RECURSIVE announce_walk(_, _, _, _, _, _)
announce_walk(tiers, up, tier_index, tracker_index, tried, final_error) ==
    IF tier_index > Len(tiers)
    THEN [ok |-> FALSE, tiers |-> tiers, tried |-> tried, url |-> "",
          error |-> IF final_error = "" THEN "NoWorkingTrackers" ELSE final_error]
    ELSE IF tracker_index > Len(tiers[tier_index])
    THEN announce_walk(tiers, up, tier_index + 1, 1, tried, final_error)
    ELSE LET tracker_url == tiers[tier_index][tracker_index]
         IN IF tracker_url \in up
            THEN [ok |-> TRUE,
                  tiers |-> [tiers EXCEPT ![tier_index] = Promote(@, tracker_index)],
                  tried |-> Append(tried, tracker_url), url |-> tracker_url, error |-> ""]
            ELSE announce_walk(tiers, up, tier_index, tracker_index + 1,
                               Append(tried, tracker_url), DownError)

announce_to_tracker(tiers, up) == announce_walk(tiers, up, 1, 1, <<>>, "")

\* the peers of a tracker response
StatusPeers == {<<>>} \cup PeerLists

\* one announce_to_tracker(event) of the announce task and what the task does
\* with its result: a PeerList to the supervisor when the response has peers;
\* the task returns when the first announce fails or the supervisor is gone
AnnounceRound(event, peers, pcOnError) ==
    /\ Len(announces.events) < MaxAnnounces
    /\ announced = 0 /\ peers # <<>> => peers[1] = FirstPeer
    /\ announced + Len(peers) <= MaxAnnounced
    /\ LET r == announce_to_tracker(tracker.tiers, net)
           sends == r.ok /\ peers # <<>>
       IN /\ announces' = [events |-> Append(announces.events, event),
                           tried |-> r.tried, ok |-> r.ok, error |-> r.error]
          /\ tracker' = [pc |-> IF ~r.ok THEN pcOnError
                                ELSE IF sends /\ supState = "panicked" THEN "ended"
                                ELSE "loop",
                         tiers |-> r.tiers,
                         current_tracker_url |-> IF r.ok THEN r.url
                                                 ELSE tracker.current_tracker_url]
          /\ cmd' = IF sends /\ supState # "panicked" /\ Len(cmd) < CHANNEL_CAPACITY
                    THEN Append(cmd, PeerListMsg(peers)) ELSE cmd
          /\ announced' = IF sends /\ supState # "panicked"
                          THEN announced + Len(peers) ELSE announced
    /\ UNCHANGED <<torrent, call, supState, pickerVars, peer_list, bitfield, piece_cache,
                   sessions, diskVars, received, histVars, net>>

\* the first announce of the task spawned by Torrent::run
AnnounceStarted(peers) ==
    /\ supState # "new"
    /\ tracker.pc = "new"
    /\ AnnounceRound("started", peers, "ended")

\* an announce of the loop, after a tick of the interval
AnnounceRegular(peers) ==
    /\ tracker.pc = "loop"
    /\ AnnounceRound("", peers, "loop")

\* a tracker starts or stops answering
NetChange(url) ==
    /\ net' = IF url \in net THEN net \ {url} ELSE net \cup {url}
    /\ UNCHANGED <<torrent, call, supState, cmd, pickerVars, peer_list, bitfield, piece_cache,
                   sessions, diskVars, announced, received, histVars, tracker, announces>>

\* the announce-lists of the metainfo files: none (the announce URL alone),
\* an empty one, and two tiers
AnnounceLists == {<<<<"t1">>>>, <<>>, <<<<"t1", "t2", "t3">>, <<"t4">>>>}

Urls == {"t1", "t2", "t3", "t4"}

\* tier.shuffle()
Shuffles(tier) ==
    {p \in [DOMAIN tier -> {tier[j] : j \in DOMAIN tier}] :
        \A u \in {tier[j] : j \in DOMAIN tier} : \E j \in DOMAIN tier : p[j] = u}

InitTracker ==
    /\ InitEngine(SmallTorrent)
    /\ \E list \in AnnounceLists :
        \E tiers \in [DOMAIN list -> UNION {Shuffles(list[j]) : j \in DOMAIN list}] :
            /\ \A j \in DOMAIN list : tiers[j] \in Shuffles(list[j])
            /\ \E up \in SUBSET Urls : InitAnnouncer(tiers, up)

Announcer ==
    \/ \E peers \in StatusPeers : AnnounceStarted(peers)
    \/ \E peers \in StatusPeers : AnnounceRegular(peers)

NextTracker ==
    \/ SupervisorStart
    \/ Announcer
    \/ \E url \in Urls : NetChange(url)

SpecTracker == InitTracker /\ [][NextTracker]_vars

\* the download engine with fault-free peers and disk, fed by the announce
\* task instead of an abstract tracker
NextAnnounce == Announcer \/ IdealSupervisor \/ IdealSession \/ IdealPeer \/ IdealDisk

SpecAnnounce == Init /\ [][NextAnnounce]_vars

\* --------------------------------------------------- methods on their own
\* BitField::new, set_piece, has_piece and try_from and PiecePicker::get_blocks
\* called as their unit tests call them, on piece counts up to MaxPieces and
\* wire bitfields of up to MaxBytes bytes.
MaxPieces == 9

MaxBytes == 3

WireBytes == {0, 1, 64, 128, 255}

WireStrings == UNION {[1..n -> WireBytes] : n \in 0..MaxBytes}

\* piece_length and length with pieces of one byte, of a block less one, of
\* one block, of a block and a byte, of two blocks, of two blocks and more,
\* and a last piece of two blocks and a byte after one of three blocks
BlockTorrents ==
    {[piece_length |-> 1, length |-> 2],
     [piece_length |-> BLOCK_SIZE, length |-> 2 * BLOCK_SIZE - 1],
     [piece_length |-> BLOCK_SIZE + 1, length |-> BLOCK_SIZE + 1],
     [piece_length |-> 2 * BLOCK_SIZE, length |-> 40000],
     [piece_length |-> 40000, length |-> 2 * 40000],
     [piece_length |-> 3 * BLOCK_SIZE, length |-> 5 * BLOCK_SIZE + 1]}

pureFrame == <<torrent, supState, cmd, pickerVars, peer_list, bitfield, piece_cache,
               sessions, diskVars, announced, received, histVars, trackerVars>>

\* BitField::new(total_pieces)
CallNew(total_pieces) ==
    /\ call.fn = "none"
    /\ call' = [fn |-> "new", arg |-> <<total_pieces>>, obj |-> BitFieldNew(total_pieces),
                out |-> <<>>, hist |-> {}]
    /\ UNCHANGED pureFrame

\* set_piece(index) on the bitfield made so far; hist keeps the indices
CallSetPiece(index) ==
    /\ call.fn \in {"new", "set_piece"}
    /\ call' = [fn |-> "set_piece", arg |-> call.arg, obj |-> set_piece(call.obj, index),
                out |-> <<>>, hist |-> call.hist \cup {index}]
    /\ UNCHANGED pureFrame

\* BitField::try_from(bytes, num_pieces)
CallTryFrom(bytes, num_pieces) ==
    /\ call.fn = "none"
    /\ call' = [fn |-> "try_from", arg |-> <<bytes, num_pieces>>, obj |-> BitFieldNew(0),
                out |-> try_from(bytes, num_pieces), hist |-> {}]
    /\ UNCHANGED pureFrame

\* get_blocks(piece_idx) on the picker of torrent t
CallGetBlocks(t, piece_idx) ==
    /\ call.fn = "none"
    /\ call' = [fn |-> "get_blocks", arg |-> <<t, piece_idx>>,
                obj |-> BitFieldNew(0), out |-> get_blocks(PickerFrom(t), piece_idx),
                hist |-> {}]
    /\ UNCHANGED pureFrame

NextPure ==
    \/ \E n \in 0..MaxPieces : CallNew(n)
    \/ \E i \in 0..(MaxPieces + 1) : CallSetPiece(i)
    \/ \E bytes \in WireStrings, n \in 0..MaxPieces : CallTryFrom(bytes, n)
    \/ \E t \in BlockTorrents : \E i \in 0..(get_total_pieces(t) - 1) : CallGetBlocks(t, i)

SpecPure == InitWith(SmallTorrent) /\ [][NextPure]_vars

\* ------------------------------------------------------- the picker alone
\* The PiecePicker of a six-piece torrent driven through register_peer,
\* pick_piece and mark_piece_downloaded, as its unit tests drive it: every
\* peer registers once, and the pieces complete in index order
\* (test_pick_piece_rarest_first_behavior), granted before or not.
PickerTorrent == [piece_length |-> 2, length |-> 12]

InitPicker == InitWith(PickerTorrent)

\* bitfields of six pieces: all of them, and pieces 0..4
PickerBitfields == {<<252>>, <<248>>}

pickerFrame == <<torrent, call, trackerVars, supState, cmd, peer_list, bitfield, piece_cache, sessions,
                diskVars, announced, failed>>

PickerRegister(peer, bytes) ==
    /\ received < MaxRecv
    /\ peer \notin DOMAIN peer_bitifield
    /\ LET r == try_from(bytes, NumPieces)
       IN /\ r.ok
          /\ pieces' = register_peer(pieces, r.bf)
          /\ peer_bitifield' = MapInsert(peer_bitifield, peer, r.bf)
    /\ Wire
    /\ UNCHANGED <<pickerFrame, pick_strategy, grants, lastPick>>

PickerPick(peer) ==
    /\ LET choices == IF peer \in DOMAIN peer_bitifield
                      THEN PickChoices(pieces, pick_strategy, peer_bitifield[peer])
                      ELSE {}
       IN \E k \in (IF choices = {} THEN {-1} ELSE choices) :
            /\ pieces' = IF k = -1 THEN pieces ELSE mark_piece(pieces, k, "Requested")
            /\ grants' = IF k = -1 THEN grants
                         ELSE [grants EXCEPT ![k] = Append(@, peer)]
            /\ lastPick' = [addr |-> peer, piece |-> k,
                            done |-> {i \in DOMAIN pieces : pieces[i].status = "Download"},
                            had |-> IF peer \in DOMAIN peer_bitifield
                                    THEN {i \in DOMAIN pieces :
                                            has_piece(peer_bitifield[peer], i)}
                                    ELSE {}]
    /\ UNCHANGED <<pickerFrame, received, peer_bitifield, pick_strategy>>

PickerMark(piece_idx) ==
    /\ pieces[piece_idx].status # "Download"
    /\ \A i \in DOMAIN pieces : i < piece_idx => pieces[i].status = "Download"
    /\ LET r == mark_piece_downloaded(pieces, pick_strategy, piece_idx)
       IN /\ pieces' = r.pieces
          /\ pick_strategy' = r.strategy
    /\ UNCHANGED <<pickerFrame, received, peer_bitifield, grants, lastPick>>

NextPicker ==
    \/ \E peer \in Peers, bytes \in PickerBitfields : PickerRegister(peer, bytes)
    \/ \E peer \in Peers : PickerPick(peer)
    \/ \E i \in DOMAIN pieces : PickerMark(i)

SpecPicker == InitPicker /\ [][NextPicker]_vars

\* ---------------------------------------------------- the PieceCache alone
\* PieceCache::from and insert_block called as the unit tests call them: the
\* torrent of create_mock_torrent_info (3 pieces of 16 KiB) and up to MaxRecv
\* insertions of blocks that start at 0, 4096 or 8192 and are 4096, 8192 or
\* 16384 bytes long, for the three pieces and for index 3, which is no piece.
CacheTorrent == [piece_length |-> BLOCK_SIZE, length |-> 3 * BLOCK_SIZE]

InitCache == InitWith(CacheTorrent)

CacheBlocks ==
    {Block(i, b, l, "good") : i \in 0..3, b \in {0, 4096, 8192}, l \in {4096, 8192, BLOCK_SIZE}}

cacheFrame == <<torrent, trackerVars, supState, cmd, pickerVars, peer_list, bitfield,
                sessions, diskVars, announced, histVars>>

\* cache.insert_block(block); a slice out of range panics the test.  hist
\* keeps the call number and the index of every piece yielded
CacheInsert(block) ==
    /\ received < MaxRecv
    /\ call.fn \in {"none", "insert_block"}
    /\ LET r == insert_block(piece_cache, block)
       IN /\ piece_cache' = r.map
          /\ call' = [fn |-> IF r.panic THEN "panic" ELSE "insert_block",
                      arg |-> <<block>>, obj |-> piece_cache, out |-> r,
                      hist |-> IF r.done THEN call.hist \cup {<<received, block.index>>}
                               ELSE call.hist]
    /\ Wire
    /\ UNCHANGED cacheFrame

NextCache == \E block \in CacheBlocks : CacheInsert(block)

SpecCache == InitCache /\ [][NextCache]_vars

\* ------------------------------------------------------------------ claims
Registered(i) == {p \in DOMAIN peer_bitifield : has_piece(peer_bitifield[p], i)}

\* the supervisor handles a message of this type in the step
SupHandles(type) == SupReady(type) /\ cmd' = Tail(cmd)

Rank(status) == CASE status = "NotRequested" -> 0
                  [] status = "Requested" -> 1
                  [] status = "Download" -> 2

\* C11: with peers that have every piece, unchoke and answer every REQUEST
\* with correct data, the download eventually has every piece Downloaded.
C11_DownloadCompletes == <>all_pieces_downloaded(pieces)

SessionsOf(a) == {s \in DOMAIN sessions : sessions[s].addr = a}

\* C12: once every session of an address has ended (and no further one can be
\* spawned), the supervisor eventually has the address out of the connected
\* set and its bitfield out of the picker.
C12_DisconnectReported ==
    \A a \in Peers :
        (/\ Len(sessions) = MaxAnnounced
         /\ SessionsOf(a) # {}
         /\ \A s \in SessionsOf(a) : sessions[s].pc \in {"ended", "panicked"})
            ~> (a \notin peer_list /\ a \notin DOMAIN peer_bitifield)

\* C13: no message of a peer stops the supervisor: its message loop never
\* panics.
C13_SupervisorNeverStops == supState # "panicked"

\* the writes of piece k the supervisor has submitted and the disk actor has
\* not taken yet (all of them where the disk actor does not run)
Submitted(k) ==
    {j \in DOMAIN diskQ : /\ diskQ[j].type = "WriteBlock"
                          /\ diskQ[j].offset = k * torrent.piece_length}

\* C14: the supervisor submits each piece index to the disk actor at most
\* once.
C14_WrittenAtMostOnce ==
    \A k \in DOMAIN pieces : Cardinality(Submitted(k)) <= 1

\* piece k was submitted, and a block of k a session had already forwarded
\* arrived once more
C14_Witness ==
    \E k \in DOMAIN pieces, s \in DOMAIN sessions :
        /\ Cardinality(Submitted(k)) = 1
        /\ \E info \in sessions[s].again : info.index = k

\* the blocking worker of job j does its write_all in the step
WritesNow(j) ==
    /\ j \in DOMAIN disk.jobs
    /\ disk.jobs[j].pc = "write"
    /\ disk'.jobs = RemoveAt(disk.jobs, j)
    /\ file' # file

\* C15: a disk write puts the bytes of its piece into the region of that
\* piece and changes no other region, whatever other write is in flight.
C15_WriteStaysInItsRange ==
    [][\A j \in DOMAIN disk.jobs :
          WritesNow(j) =>
             /\ file'.region[disk.jobs[j].data.src] = "good"
             /\ \A i \in DOMAIN file.region :
                   i # disk.jobs[j].data.src => file'.region[i] = file.region[i]
      ]_vars

PieceIds == UNION {0..(get_total_pieces(t) - 1) : t \in Torrents}

\* the write of piece k has failed: the piece was validated and marked, no
\* write of it is pending or running, and its region does not hold it
WriteFailed(k) ==
    /\ k \in DOMAIN pieces
    /\ pieces[k].status = "Download"
    /\ Submitted(k) = {}
    /\ \A j \in DOMAIN disk.jobs : disk.jobs[j].data.src # k
    /\ file.region[k] # "good"

\* C16: a piece whose disk write has failed is eventually reset to
\* NotRequested.
C16_FailedWriteRequeued ==
    \A k \in PieceIds :
        WriteFailed(k) ~> (k \in DOMAIN pieces /\ pieces[k].status = "NotRequested")

\* the REQUESTs session s sends in the step
SentNow(s) == sessions'[s].requested \ sessions[s].requested

\* session s, interested and unchoked with nothing outstanding, takes a grant
\* of at least THRESHOLD blocks in the step
TakesGrant(s) ==
    /\ sessions[s].pc = "waitTask" /\ sessions'[s].pc = "idle"
    /\ sessions[s].reply.kind = "task"
    /\ Len(sessions[s].reply.task.list) >= THRESHOLD
    /\ sessions[s].outgoing_requests = {}
    /\ ~sessions[s].remote_choking /\ sessions[s].am_interested

\* session s, interested and unchoked with unsent blocks left, receives a
\* PIECE that matches an outstanding request in the step
TakesPiece(s) ==
    /\ sessions[s].pc = "idle"
    /\ \E info \in sessions[s].outgoing_requests :
          /\ info \notin sessions'[s].outgoing_requests
          /\ info \in sessions'[s].answered
    /\ sessions[s].blocks_to_request.list # <<>>
    /\ ~sessions[s].remote_choking /\ sessions[s].am_interested

\* C17: taking a grant of at least 5 blocks with nothing outstanding sends
\* exactly 5 REQUESTs, and each PIECE that matches an outstanding request
\* sends exactly one more while unsent blocks remain.
C17_PipelineRefill ==
    [][\A s \in DOMAIN sessions :
          /\ TakesGrant(s) => Cardinality(SentNow(s)) = THRESHOLD
          /\ TakesPiece(s) => Cardinality(SentNow(s)) = 1
      ]_vars

\* a session has sent 5 REQUESTs on its grant and its last block after the
\* first PIECE
C17_Witness ==
    \E s \in DOMAIN sessions :
        /\ Cardinality(sessions[s].answered) = 1
        /\ Cardinality(sessions[s].requested) = THRESHOLD + 1
        /\ sessions[s].blocks_to_request = [some |-> TRUE, list |-> <<>>]

\* the session tasks of address a that are connecting or connected
LiveSessionsOf(a) ==
    {s \in SessionsOf(a) : sessions[s].pc \notin {"ended", "panicked"}}

\* C18: there is at most one session task, connecting or connected, per peer
\* address.
C18_OneSessionPerAddress ==
    \A a \in Peers : Cardinality(LiveSessionsOf(a)) <= 1

\* C19: the strategy is RandomFirst in every state with fewer than four
\* Downloaded pieces and RarestFirst in every state with four or more (the
\* count grows by one piece per mark_piece_downloaded call, so the switch is
\* made by the call that brings it to four), and a RarestFirst strategy
\* stays RarestFirst in every step.
C19_StrategySwitch ==
    /\ [](pick_strategy = IF DownloadedCount(pieces) < RAREST_AFTER
                          THEN "RandomFirst" ELSE "RarestFirst")
    /\ [][pick_strategy = "RarestFirst" => pick_strategy' = "RarestFirst"]_vars

\* a fifth piece was marked after the switch
C19_Witness ==
    /\ DownloadedCount(pieces) = RAREST_AFTER + 1
    /\ pick_strategy = "RarestFirst"

\* the piece a pick_piece call grants in the step
PickedNow(k) == Len(grants'[k]) = Len(grants[k]) + 1

\* C20: a piece k that pick_piece grants to a peer under RarestFirst was
\* NotRequested and set in the peer's bitfield, no such piece i had a smaller
\* availability, and none of the same availability had a smaller index.
C20_RarestFirstPick ==
    [][\A k \in DOMAIN pieces :
         (pick_strategy = "RarestFirst" /\ PickedNow(k)) =>
            LET peer == grants'[k][Len(grants'[k])]
                C == {i \in DOMAIN pieces : /\ pieces[i].status = "NotRequested"
                                            /\ peer \in Registered(i)}
            IN /\ k \in C
               /\ \A i \in C : /\ pieces[k].availability <= pieces[i].availability
                               /\ pieces[k].availability = pieces[i].availability
                                    => k <= i]_vars

\* the last pick was made under RarestFirst between two candidates of the
\* same availability (every peer registered has both), and took the first
C20_Witness ==
    /\ pick_strategy = "RarestFirst"
    /\ Cardinality(lastPick.done) = RAREST_AFTER
    /\ \E k \in DOMAIN pieces :
         /\ lastPick.piece = k
         /\ k + 1 \in lastPick.had
         /\ pieces[k].status = "Requested"
         /\ pieces[k + 1].status = "NotRequested"
         /\ \A p \in DOMAIN peer_bitifield : /\ has_piece(peer_bitifield[p], k)
                                             /\ has_piece(peer_bitifield[p], k + 1)

\* C1: availability[i] is the number of registered peers whose stored
\* bitfield has bit i.
C1_AvailabilityCountsPeers ==
    \A i \in DOMAIN pieces : pieces[i].availability = Cardinality(Registered(i))

\* C2: a piece is granted to at most one peer: a piece that is Requested or
\* Downloaded has been returned by exactly one pick_piece call, and a piece
\* that is NotRequested by none.
C2_GrantedToAtMostOnePeer ==
    \A k \in DOMAIN pieces :
        IF pieces[k].status = "NotRequested"
        THEN grants[k] = <<>>
        ELSE Len(grants[k]) <= 1

\* a pick_piece call for a peer that has piece k, made after k was granted,
\* did not return k
C2_Witness ==
    \E k \in DOMAIN pieces :
        /\ grants[k] # <<>>
        /\ k \in lastPick.had
        /\ lastPick.piece # k

\* C3: a piece's status never moves back (NotRequested, Requested,
\* Downloaded), and a GetTask step changes a status only from NotRequested
\* to Requested.
C3_StatusOnlyAdvances ==
    [][\A k \in DOMAIN pieces :
          /\ Rank(pieces'[k].status) >= Rank(pieces[k].status)
          /\ (SupHandles("GetTask") /\ pieces'[k].status # pieces[k].status)
                => (pieces[k].status = "NotRequested" /\ pieces'[k].status = "Requested")
      ]_vars

\* pick_piece was called for a peer that has a piece which was Downloaded then
\* and still is
C3_Witness ==
    \E k \in lastPick.done \cap lastPick.had : pieces[k].status = "Download"

\* C4: a session has at most 5 outstanding requests, each one sent as a
\* REQUEST and not answered by a PIECE.
C4_PipelineBound ==
    \A s \in DOMAIN sessions :
        /\ Cardinality(sessions[s].outgoing_requests) <= THRESHOLD
        /\ sessions[s].outgoing_requests \subseteq sessions[s].requested
        /\ sessions[s].outgoing_requests \cap sessions[s].answered = {}

\* a full pipeline after a PIECE was answered and a further REQUEST sent
C4_Witness ==
    \E s \in DOMAIN sessions :
        /\ Cardinality(sessions[s].outgoing_requests) = THRESHOLD
        /\ sessions[s].answered # {}
        /\ Cardinality(sessions[s].requested) > THRESHOLD

\* C5: a session starts as am_choking, not am_interested, peer_choking, not
\* peer_interested, and sends a REQUEST only when the last Choke/Unchoke it
\* received was an Unchoke.
C5_RequestsOnlyWhenUnchoked ==
    [][\A s \in DOMAIN sessions' :
          /\ s \notin DOMAIN sessions =>
                /\ sessions'[s].am_choking /\ ~sessions'[s].am_interested
                /\ sessions'[s].remote_choking /\ ~sessions'[s].remote_interested
          /\ (s \in DOMAIN sessions
              /\ sessions'[s].requested \ sessions[s].requested # {})
                => sessions'[s].unchoked
      ]_vars

\* C6: local bitfield bit i is set if and only if the file region of piece i
\* holds the bytes of piece i.
C6_BitIffWritten ==
    \A i \in DOMAIN pieces : has_piece(bitfield, i) <=> file.region[i] = "good"

\* C7: between two handled messages, every Downloaded piece has its local
\* bitfield bit set.
C7_DownloadedHasBit ==
    \A i \in DOMAIN pieces : pieces[i].status = "Download" => has_piece(bitfield, i)

C7_Witness == \E i \in DOMAIN pieces : pieces[i].status = "Download"

\* C8: the step in which a completed piece fails validation submits no write,
\* does not mark the piece Downloaded and leaves its bitfield bit unset.
C8_InvalidPieceNotWritten ==
    [][\A k \in failed' \ failed :
          /\ diskQ' = diskQ
          /\ pieces'[k].status # "Download"
          /\ ~has_piece(bitfield', k)
      ]_vars

\* a piece has failed validation: it is not Downloaded, its bit is unset and
\* no write of it is in the disk actor's mailbox
C8_Witness ==
    \E k \in failed :
        /\ pieces[k].status # "Download"
        /\ ~has_piece(bitfield, k)
        /\ \A j \in DOMAIN diskQ : diskQ[j].data.src # k

\* C9: the step in which a completed piece fails validation returns it to
\* NotRequested.
C9_InvalidPieceRequeued ==
    [][\A k \in failed' \ failed : pieces'[k].status = "NotRequested"]_vars

\* C10: handling PeerDisconnected(addr) resets every piece granted to addr
\* that is still Requested to NotRequested and clears its buffer.
C10_DisconnectRequeues ==
    [][SupHandles("PeerDisconnected") =>
          \A k \in DOMAIN pieces :
             (/\ grants[k] # <<>>
              /\ grants[k][Len(grants[k])] = Head(cmd).addr
              /\ pieces[k].status = "Requested")
                => /\ pieces'[k].status = "NotRequested"
                   /\ k \in DOMAIN piece_cache' => piece_cache'[k].downloaded = 0
      ]_vars

\* the pieces pick_piece(addr) may grant: NotRequested and set in the stored
\* bitfield of addr
Grantable(addr) ==
    {i \in DOMAIN pieces : pieces[i].status = "NotRequested" /\ addr \in Registered(i)}

\* C21: handling GetTask(addr) replies None exactly when no piece is
\* NotRequested and set in addr's stored bitfield, and then leaves the picker
\* as it was; otherwise it replies the block list of one such piece k, whose
\* status becomes Requested, and every availability, every other status, the
\* stored bitfields and the strategy stay as they were.
C21_PickFrame ==
    [][SupHandles("GetTask") =>
          LET m == Head(cmd)
              rep == sessions'[m.sid].reply
          IN /\ rep.kind = "task"
             /\ rep.task.some <=> Grantable(m.addr) # {}
             /\ ~rep.task.some => pickerVars' = pickerVars
             /\ rep.task.some =>
                  \E k \in Grantable(m.addr) :
                     /\ pieces' = [pieces EXCEPT ![k].status = "Requested"]
                     /\ rep.task.list = get_blocks(pieces, k)
                     /\ \A j \in DOMAIN rep.task.list : rep.task.list[j].index = k
                     /\ peer_bitifield' = peer_bitifield
                     /\ pick_strategy' = pick_strategy
      ]_vars

\* one session holds the block list of the piece last granted, and a later
\* GetTask of another session was answered None
C21_Witness ==
    \E s, t \in DOMAIN sessions :
        /\ sessions[s].reply.kind = "task"
        /\ sessions[s].reply.task.some
        /\ sessions[t].reply.kind = "task"
        /\ ~sessions[t].reply.task.some
        /\ lastPick.piece = -1
        /\ lastPick.addr = sessions[t].addr

\* addr is registered and its stored bitfield has a piece that is NotRequested
\* or Requested
HasWanted(ps, bfs, addr) ==
    /\ addr \in DOMAIN bfs
    /\ {i \in DOMAIN ps : has_piece(bfs[addr], i)}
          \cap {i \in DOMAIN ps : ps[i].status \in {"NotRequested", "Requested"}} # {}

\* C22: check_interest(addr) is true exactly when addr is registered and its
\* stored bitfield has a piece that is not Downloaded: in every state, for
\* every address, and in the verdict the supervisor sends back after a
\* Bitfield or a Have.
C22_InterestVerdict ==
    /\ [](\A a \in Peers :
            check_interest(pieces, peer_bitifield, a) <=> HasWanted(pieces, peer_bitifield, a))
    /\ [][(/\ SupHandles("PeerBitfield") \/ SupHandles("PeerHave")
           /\ Head(cmd).sid # 0
           /\ supState' = "running")
            => LET rep == sessions'[Head(cmd).sid].reply
               IN /\ rep.kind = "interest"
                  /\ rep.b <=> HasWanted(pieces', peer_bitifield', Head(cmd).addr)
        ]_vars

\* a registered peer has pieces, all of them Downloaded, and another address
\* is not registered: no interest in either
C22_Witness ==
    \E a \in DOMAIN peer_bitifield :
        /\ Registered(0) = {a}
        /\ \A i \in DOMAIN pieces : a \in Registered(i) => pieces[i].status = "Download"
        /\ ~check_interest(pieces, peer_bitifield, a)
        /\ \E b \in Peers \ DOMAIN peer_bitifield :
              ~check_interest(pieces, peer_bitifield, b)

\* C23: handling PeerDisconnected(addr), which calls unregister_peer(addr),
\* for an address without a stored bitfield leaves the picker as it was, and
\* no availability count is below 0 in any state.
C23_UnregisterUnknown ==
    /\ [](\A i \in DOMAIN pieces : pieces[i].availability >= 0)
    /\ [][(SupHandles("PeerDisconnected") /\ Head(cmd).addr \notin DOMAIN peer_bitifield)
            => pickerVars' = pickerVars]_vars

\* the one message received was the Bitfield of b, still counted; a session
\* of another address a has ended and its PeerDisconnected was handled
C23_Witness ==
    /\ supState = "running"
    /\ cmd = <<>>
    /\ received = 1
    /\ \E b \in DOMAIN peer_bitifield, a \in Peers \ DOMAIN peer_bitifield :
          /\ pieces[0].availability = 1
          /\ Registered(0) = {b}
          /\ \E s \in SessionsOf(a) : sessions[s].pc = "ended"

\* an announce_to_tracker call returns in the step
AnnouncedNow == Len(announces'.events) = Len(announces.events) + 1

\* C24: an announce round in which every URL of every tier failed has
\* returned the error NoWorkingTrackers.
C24_AllFailedIsNoWorkingTrackers ==
    (announces.events # <<>> /\ ~announces.ok) => announces.error = "NoWorkingTrackers"

\* the URLs of the tiers, tier by tier
RECURSIVE Flat(_)
Flat(tiers) == IF tiers = <<>> THEN <<>> ELSE Head(tiers) \o Flat(Tail(tiers))

Without(tier, url) == SelectSeq(tier, LAMBDA u : u # url)

\* C25: an announce round tries the URLs tier by tier and in order within a
\* tier up to the first that answers; that URL moves to the front of its
\* tier, whose other URLs keep their order, and the other tiers stay as they
\* were (a round without an answer tries every URL and changes no tier); in
\* every state each tier is a permutation of its URLs in the announce-list.
C25_TierOrder ==
    /\ [](\E list \in AnnounceLists :
            /\ DOMAIN tracker.tiers = DOMAIN list
            /\ \A j \in DOMAIN list : tracker.tiers[j] \in Shuffles(list[j]))
    /\ [][AnnouncedNow =>
            LET flat == Flat(tracker.tiers)
                hits == {i \in DOMAIN flat : flat[i] \in net}
            IN IF hits = {}
               THEN /\ ~announces'.ok
                    /\ announces'.tried = flat
                    /\ tracker'.tiers = tracker.tiers
               ELSE LET n == CHOOSE i \in hits : \A h \in hits : i <= h
                    IN /\ announces'.ok
                       /\ announces'.tried = SubSeq(flat, 1, n)
                       /\ DOMAIN tracker'.tiers = DOMAIN tracker.tiers
                       /\ \A t \in DOMAIN tracker.tiers :
                            tracker'.tiers[t] =
                               IF \E j \in DOMAIN tracker.tiers[t] : tracker.tiers[t][j] = flat[n]
                               THEN <<flat[n]>> \o Without(tracker.tiers[t], flat[n])
                               ELSE tracker.tiers[t]
       ]_vars

\* the third tracker of the first tier answered the last round and is now in
\* front of the two that did not, which kept their order
C25_Witness ==
    /\ announces.ok
    /\ Len(announces.tried) = 3
    /\ Len(tracker.tiers) = 2
    /\ tracker.tiers[1] = <<announces.tried[3], announces.tried[1], announces.tried[2]>>

\* C26: an announce round that fails, the first one included, leaves the
\* announce task in its loop, waiting for the next tick.
C26_FailedRoundNeverStops ==
    [][(AnnouncedNow /\ ~announces'.ok) => tracker'.pc = "loop"]_vars

\* the event the lifecycle asks of the next announce: started on the first,
\* completed on the first after the download is complete, none otherwise
DueEvent ==
    IF announces.events = <<>> THEN "started"
    ELSE IF /\ all_pieces_downloaded(pieces)
            /\ \A j \in DOMAIN announces.events : announces.events[j] # "completed"
    THEN "completed"
    ELSE ""

\* C27: the first announce carries event started, the first announce after
\* every piece is Downloaded carries completed, and every other announce of
\* the running task carries no event.
C27_LifecycleEvents ==
    [][AnnouncedNow => announces'.events[Len(announces'.events)] = DueEvent]_vars

\* C28: after BitField::new(n) and any sequence of set_piece calls, has_piece(i)
\* is true exactly for the indices i < n that were set: an index >= n reads
\* false and setting it changes nothing, and no set clears a bit.
C28_SetAndHas ==
    call.fn \in {"new", "set_piece"} =>
        /\ call.obj.total_pieces = call.arg[1]
        /\ Len(call.obj.inner) = CeilDiv(call.arg[1], 8)
        /\ \A i \in 0..(MaxPieces + 2) :
              has_piece(call.obj, i) <=> (i \in call.hist /\ i < call.arg[1])

\* a bitfield of more than eight pieces with its first and last piece set
\* and one set past its end
C28_Witness ==
    /\ call.fn = "set_piece"
    /\ call.arg[1] > 8
    /\ {0, call.arg[1] - 1, call.arg[1]} \subseteq call.hist
    /\ has_piece(call.obj, call.arg[1] - 1)

\* bit i of a wire bitfield, the most significant bit of a byte first
WireBit(bytes, i) == (bytes[(i \div 8) + 1] \div Pow2(7 - (i % 8))) % 2 = 1

\* C29: try_from(bytes, n) is InvalidLength for fewer than ceil(n/8) bytes,
\* NonZeroSpareBits when a wire bit from n on is set in the given bytes, and
\* otherwise a bitfield of n pieces and ceil(n/8) bytes whose has_piece(i) is
\* wire bit i for every i < n.
C29_TryFrom ==
    call.fn = "try_from" =>
        LET bytes == call.arg[1]
            n == call.arg[2]
            r == call.out
        IN IF Len(bytes) < CeilDiv(n, 8)
           THEN ~r.ok /\ r.err = "InvalidLength"
           ELSE IF \E k \in n..(8 * Len(bytes) - 1) : WireBit(bytes, k)
           THEN ~r.ok /\ r.err = "NonZeroSpareBits"
           ELSE /\ r.ok
                /\ r.bf.total_pieces = n
                /\ Len(r.bf.inner) = CeilDiv(n, 8)
                /\ \A i \in 0..(n - 1) : has_piece(r.bf, i) <=> WireBit(bytes, i)

\* a wire bitfield with a zero byte more than its pieces need is accepted,
\* and its last piece is set
C29_Witness ==
    /\ call.fn = "try_from"
    /\ call.out.ok
    /\ Len(call.arg[1]) > CeilDiv(call.arg[2], 8)
    /\ call.arg[2] % 8 # 0
    /\ has_piece(call.out.bf, call.arg[2] - 1)

\* C30: the block list of a piece of S > 0 bytes has ceil(S / 16384) blocks of
\* that piece's index; the first begins at 0, each next one where the one
\* before ends, every block but the last has 16384 bytes and the last has
\* between 1 and 16384, ending at S; S is piece_length, and what is left of
\* the file for the last piece.
C30_BlockList ==
    call.fn = "get_blocks" =>
        LET t == call.arg[1]
            k == call.arg[2]
            list == call.out
            S == IF (k + 1) * t.piece_length > t.length
                 THEN t.length - k * t.piece_length ELSE t.piece_length
        IN /\ S > 0
           /\ Len(list) * BLOCK_SIZE >= S
           /\ (Len(list) - 1) * BLOCK_SIZE < S
           /\ list[1].begin = 0
           /\ list[Len(list)].begin + list[Len(list)].length = S
           /\ \A j \in DOMAIN list :
                /\ list[j].index = k
                /\ list[j].length >= 1
                /\ list[j].length <= BLOCK_SIZE
                /\ j < Len(list) => /\ list[j].length = BLOCK_SIZE
                                    /\ list[j + 1].begin = list[j].begin + list[j].length

\* the list of a last piece shorter than piece_length: three blocks, the
\* last of them short
C30_Witness ==
    /\ call.fn = "get_blocks"
    /\ (call.arg[2] + 1) * call.arg[1].piece_length > call.arg[1].length
    /\ Len(call.out) = 3
    /\ call.out[3].length < BLOCK_SIZE

\* C31: the step in which a session reads a handshake of another info_hash
\* ends the session and sends the supervisor nothing but PeerDisconnected;
\* an ended session never takes a step again, so its message loop never runs
\* and nothing more of it reaches the supervisor.
C31_HandshakeMismatch ==
    [][\A s \in DOMAIN sessions :
         /\ (SessionHandshake(s, "other") =>
                /\ sessions'[s].pc = "ended"
                /\ cmd' \in {cmd, Append(cmd, PeerDisconnectedMsg(sessions[s].addr))})
         /\ (sessions[s].pc = "ended" => sessions'[s] = sessions[s])
      ]_vars

\* a session has ended before any peer sent a message and its
\* PeerDisconnected was handled: its address was never connected
C31_Witness ==
    /\ supState = "running"
    /\ cmd = <<>>
    /\ received = 0
    /\ \E s \in DOMAIN sessions :
          /\ sessions[s].pc = "ended"
          /\ sessions[s].addr \notin peer_list
          /\ sessions[s].addr \notin DOMAIN peer_bitifield

\* session s, interested and unchoked, receives in the step the PIECE of an
\* outstanding request while every block of its last grant has been requested:
\* the handler removes the request and runs try_request with fewer than
\* THRESHOLD requests outstanding
DrainedTryRequest(s) ==
    /\ supState = "running"
    /\ sessions[s].pc = "idle"
    /\ \E info \in sessions[s].outgoing_requests :
          /\ info \notin sessions'[s].outgoing_requests
          /\ info \in sessions'[s].answered
    /\ sessions[s].blocks_to_request = [some |-> TRUE, list |-> <<>>]
    /\ ~sessions[s].remote_choking /\ sessions[s].am_interested

\* C32: when try_request runs while the peer is not choking, the session is
\* interested, fewer than 5 requests are outstanding and every block of the
\* last grant has been requested, the session sends GetTask to the supervisor
\* (and then waits for the block list it will cache).
C32_DrainedGrantAsksForTask ==
    [][\A s \in DOMAIN sessions :
          DrainedTryRequest(s) =>
              /\ sessions'[s].pc = "waitTask"
              /\ \E i \in DOMAIN cmd' : cmd'[i] = GetTaskMsg(sessions[s].addr, s)
      ]_vars

\* C33: when a session receives Choke, every block leaves its outstanding
\* set: the set is empty right after the Choke is handled.
C33_ChokeClearsOutstanding ==
    [][\A s \in DOMAIN sessions :
          SessionRecvChoke(s) => sessions'[s].outgoing_requests = {}
      ]_vars

\* session s has received a message other than KeepAlive before: its interest
\* was set by the verdict on a Bitfield or Have, or a Choke or an Unchoke
\* changed its choke state
EarlierMessage(s) ==
    sessions[s].am_interested \/ sessions[s].remote_choking \/ sessions[s].unchoked

\* C34: a Bitfield received after another non-KeepAlive message of the same
\* session is a protocol error: the session terminates and the bitfield is
\* not sent on to the supervisor for registration with the picker.
C34_LateBitfieldRejected ==
    [][\A s \in DOMAIN sessions, bytes \in WireBitfields :
          (EarlierMessage(s) /\ SessionRecvBitfield(s, bytes)) =>
              /\ sessions'[s].pc = "ended"
              /\ \A i \in DOMAIN cmd' : i > Len(cmd) => cmd'[i].type # "PeerBitfield"
      ]_vars

\* C35: receiving Interested or NotInterested only sets peer_interested to
\* true or false: the session keeps running, sends nothing, and its other
\* flags, its outstanding set and its cached block list are unchanged.
C35_InterestedOnlySetsFlag ==
    [][\A s \in DOMAIN sessions, flag \in BOOLEAN :
          SessionRecvInterested(s, flag) =>
              /\ sessions'[s] = [sessions[s] EXCEPT !.remote_interested = flag]
              /\ cmd' = cmd
      ]_vars

\* the fields of PeerInfo, without the history the model keeps beside them
PeerInfoOf(se) ==
    <<se.pc, se.am_interested, se.am_choking, se.remote_interested,
      se.remote_choking, se.outgoing_requests, se.blocks_to_request, se.requested>>

\* C36: a PIECE whose (index, begin, length) is not in the outstanding set is
\* ignored: nothing is sent to the supervisor, no REQUEST is sent, the
\* outstanding set and the flags are unchanged and the session stays open; so
\* every Block on its way to the assembler matches a BlockInfo of get_blocks
\* and lies inside its piece.
C36_UnrequestedPieceIgnored ==
    [][/\ \A s \in DOMAIN sessions, block \in WireBlocks :
             (/\ SessionRecvPiece(s, block)
              /\ BlockInfo(block.index, block.begin, block.length)
                     \notin sessions[s].outgoing_requests)
                 => /\ cmd' = cmd
                    /\ PeerInfoOf(sessions'[s]) = PeerInfoOf(sessions[s])
       /\ \A i \in DOMAIN cmd' :
             cmd'[i].type = "Piece" =>
                 /\ BlockInfo(cmd'[i].block.index, cmd'[i].block.begin,
                              cmd'[i].block.length) \in AllBlockInfos
                 /\ cmd'[i].block.begin + cmd'[i].block.length
                        <= pieces[cmd'[i].block.index].size
      ]_vars

\* a session that is still open has ignored a PIECE: the block it had
\* requested and received arrived once more
C36_Witness ==
    \E s \in DOMAIN sessions :
        /\ sessions[s].again # {}
        /\ sessions[s].pc = "idle"

\* C37: insert_block returns the completed piece and removes its buffer at
\* the first insertion after which the bytes written for the piece reach or
\* exceed the piece size, duplicate and overlapping blocks included.
C37_CompletesAtOrPastSize ==
    [][\A block \in CacheBlocks :
          (/\ CacheInsert(block)
           /\ block.index \in DOMAIN piece_cache
           /\ block.begin + block.length <= piece_cache[block.index].piece_length
           /\ piece_cache[block.index].downloaded < piece_cache[block.index].piece_length
           /\ piece_cache[block.index].downloaded + block.length
                  >= piece_cache[block.index].piece_length)
              => /\ call'.out.done
                 /\ call'.out.data.src = block.index
                 /\ block.index \notin DOMAIN piece_cache'
      ]_vars

\* C38: insert_block for a piece already completed returns None and leaves
\* the assembler unchanged; each piece index is yielded at most once, and an
\* insertion changes the buffer and byte count of no other piece.
C38_CompletedPieceStaysOut ==
    [][\A block \in CacheBlocks :
          CacheInsert(block) =>
              /\ block.index \notin DOMAIN piece_cache =>
                     ~call'.out.done /\ piece_cache' = piece_cache
              /\ \A j \in DOMAIN piece_cache \ {block.index} :
                     j \in DOMAIN piece_cache' /\ piece_cache'[j] = piece_cache[j]
              /\ call'.out.done =>
                     block.index \in DOMAIN piece_cache \ DOMAIN piece_cache'
              /\ \A p, q \in call'.hist : p[2] = q[2] => p = q
      ]_vars

\* a piece of the torrent was yielded and a later insert_block for it returned
\* None with other pieces still in the cache
C38_Witness ==
    /\ call.fn = "insert_block"
    /\ call.arg[1].index \in 0..2
    /\ call.arg[1].index \notin DOMAIN call.obj
    /\ \E p \in call.hist : p[2] = call.arg[1].index
    /\ ~call.out.done
    /\ \E j \in DOMAIN piece_cache : piece_cache[j].downloaded > 0

\* C39: the disk actor never processes a WriteBlock before it has processed
\* the RegisterTorrent of the torrent: the registration is the first message
\* of its mailbox and no write_piece fails with TorrentNotRegistered.
C39_RegisteredBeforeWrite ==
    [][/\ DiskWriteBlock => disk.registered
       /\ disk'.alive
       /\ \A i \in DOMAIN diskQ' :
             diskQ'[i].type = "RegisterTorrent" => i = 1 /\ ~disk.registered
      ]_vars

\* the disk actor has taken a WriteBlock from its mailbox and spawned its job
C39_Witness ==
    /\ disk.registered
    /\ disk.jobs # <<>>
    /\ diskQ = <<>>

\* session s waits for the reply of a PeerBitfield, PeerHave or GetTask
Waiting(s) == sessions[s].pc \in {"waitInterest", "waitTask"}

\* C40: every request a session sends to the supervisor with a reply channel
\* (PeerBitfield, PeerHave, GetTask) receives its reply: a session leaves its
\* wait only with the reply in hand, and a waiting session has its request in
\* the supervisor's mailbox or its reply delivered, never both and never
\* neither.
C40_EveryRequestReplied ==
    [][\A s \in DOMAIN sessions :
          /\ (Waiting(s) /\ sessions'[s].pc # sessions[s].pc)
                 => sessions[s].reply.kind # "none"
          /\ Waiting(s) =>
                 (sessions[s].reply.kind = "none"
                     <=> Cardinality({i \in DOMAIN cmd :
                            cmd[i].sid = s /\ cmd[i].type \in
                                {"PeerBitfield", "PeerHave", "GetTask"}}) = 1)
      ]_vars

====
